---- MODULE Spec2Model ----
(***************************************************************************)
(* Model of src/src/main.rs: the Graph store (vertices, edges, add_edge,   *)
(* get_neighbors), bfs, calculate_average_distance,                        *)
(* degree_distribution_analysis and the louvain / calculate_centrality     *)
(* stubs.  Vertex names (Strings in the source) are the integers           *)
(* 1..NumNames.  A HashSet / HashMap iteration order is unspecified, so    *)
(* every loop over one draws its order with \E.                            *)
(***************************************************************************)
EXTENDS Integers, Sequences, FiniteSets, TLC

\* Bounds of the model.
NumNames == 4
MaxCalls == 3

Names == 1..NumNames

VARIABLES
    vertices,            \* Graph.vertices : HashSet<String>
    edges,               \* Graph.edges    : HashMap<String, HashSet<String>>
    calls,               \* number of add_edge calls made so far
    pc,                  \* position of the driver
    ret,                 \* who called bfs: "driver" or "avg"
    start_vertex,        \* bfs: parameter
    distances,           \* bfs: HashMap<String, usize>
    visited,             \* bfs: HashSet<String>
    queue,               \* bfs: VecDeque<(String, usize)>
    total_distance,      \* calculate_average_distance: accumulator
    total_pairs,         \* calculate_average_distance: accumulator
    todo,                \* calculate_average_distance: vertices not yet iterated
    avg_distance,        \* main: the f64 returned by calculate_average_distance
    degrees,             \* degree_distribution_analysis: HashMap<usize, usize>
    degree_counts,       \* degree_distribution_analysis: the sorted Vec
    communities,         \* result of louvain
    centrality_measures  \* result of calculate_centrality

graphVars == <<vertices, edges, calls>>
bfsVars   == <<ret, start_vertex, distances, visited, queue>>
avgVars   == <<total_distance, total_pairs, todo, avg_distance>>
degVars   == <<degrees, degree_counts>>
comVars   == <<communities, centrality_measures>>
vars      == <<vertices, edges, calls, pc, ret, start_vertex, distances,
               visited, queue, total_distance, total_pairs, todo,
               avg_distance, degrees, degree_counts, communities,
               centrality_measures>>

----------------------------------------------------------------------------
\* Helpers

\* HashMap::new()
EmptyMap == [k \in {} |-> 0]

\* a value that no container of the program holds
None == "none"

\* every order in which a collection with the elements S can be iterated
RECURSIVE Orders(_)
Orders(S) ==
    IF S = {} THEN {<<>>}
    ELSE UNION {{<<x>> \o o : o \in Orders(S \ {x})} : x \in S}

----------------------------------------------------------------------------
\* Graph

\* self.vertices.insert(source); self.vertices.insert(target)
InsertVertices_SourceOnly(vs, source, target) == vs \cup {source}

InsertVertices(vs, source, target) == (vs \cup {source}) \cup {target}

\* self.edges.entry(k).or_insert(HashSet::new()).insert(v)
InsertNeighbor_Overwrite(m, k, v) ==
    IF k \in DOMAIN m THEN [m EXCEPT ![k] = {v}] ELSE m @@ (k :> {v})

InsertNeighbor(m, k, v) ==
    IF k \in DOMAIN m THEN [m EXCEPT ![k] = @ \cup {v}] ELSE m @@ (k :> {v})

\* the two adjacency insertions of add_edge
InsertEdge_OneWay(m, source, target) == InsertNeighbor(m, source, target)

InsertEdge_TargetOverwrite(m, source, target) ==
    InsertNeighbor_Overwrite(InsertNeighbor(m, source, target), target, source)

InsertEdge(m, source, target) ==
    InsertNeighbor(InsertNeighbor(m, source, target), target, source)

\* Graph::get_neighbors
get_neighbors(vertex) ==
    IF vertex \in DOMAIN edges THEN edges[vertex] ELSE {}

\* Graph::add_edge, called by the producer of (sender, recipient) pairs
add_edge(source, target) ==
    /\ pc = "ingest"
    /\ calls < MaxCalls
    /\ calls' = calls + 1
    /\ vertices' = InsertVertices(vertices, source, target)
    /\ edges' = InsertEdge(edges, source, target)
    /\ UNCHANGED <<pc, bfsVars, avgVars, degVars, comVars>>

----------------------------------------------------------------------------
\* bfs

\* let new_distance = current_distance + 1
new_distance_NoIncrement(current_distance) == current_distance

new_distance(current_distance) == current_distance + 1

\* the body of `for neighbor in graph.get_neighbors(&current_vertex)`, run
\* over the neighbours in the order `order`, from position i
RECURSIVE VisitNeighbors(_, _, _, _)
VisitNeighbors(order, i, current_distance, st) ==
    IF i > Len(order) THEN st
    ELSE LET neighbor == order[i] IN
         IF neighbor \notin st.visited
         THEN LET nd == new_distance(current_distance) IN
              VisitNeighbors(order, i + 1, current_distance,
                  [distances |-> IF neighbor \in DOMAIN st.distances
                                 THEN [st.distances EXCEPT ![neighbor] = nd]
                                 ELSE st.distances @@ (neighbor :> nd),
                   visited   |-> st.visited \cup {neighbor},
                   queue     |-> Append(st.queue, <<neighbor, nd>>)])
         ELSE VisitNeighbors(order, i + 1, current_distance, st)

\* the three initialising statements of bfs
BfsEnter(s, caller) ==
    /\ start_vertex' = s
    /\ distances' = (s :> 0)
    /\ visited' = {s}
    /\ queue' = <<<<s, 0>>>>
    /\ ret' = caller
    /\ pc' = "bfs"

\* the driver calls bfs(graph, s) on the graph built so far
CallBfs(s) ==
    /\ pc = "ingest"
    /\ BfsEnter(s, "driver")
    /\ UNCHANGED <<graphVars, avgVars, degVars, comVars>>

\* one iteration of `while let Some(..) = queue.pop_front()`
BfsStep ==
    /\ pc = "bfs"
    /\ queue # <<>>
    /\ LET current_vertex   == Head(queue)[1]
           current_distance == Head(queue)[2]
       IN \E order \in Orders(get_neighbors(current_vertex)) :
            LET st == VisitNeighbors(order, 1, current_distance,
                          [distances |-> distances, visited |-> visited,
                           queue |-> Tail(queue)])
            IN /\ distances' = st.distances
               /\ visited' = st.visited
               /\ queue' = st.queue
    /\ UNCHANGED <<graphVars, pc, ret, start_vertex, avgVars, degVars, comVars>>

\* bfs returns to the driver, which drops the map
BfsReturn ==
    /\ pc = "bfs"
    /\ queue = <<>>
    /\ ret = "driver"
    /\ pc' = "ingest"
    /\ ret' = "none"
    /\ start_vertex' = None
    /\ distances' = EmptyMap
    /\ visited' = {}
    /\ UNCHANGED <<graphVars, queue, avgVars, degVars, comVars>>

----------------------------------------------------------------------------
\* calculate_average_distance

\* an f64 is modelled by its exact value: a fraction in lowest terms, or the
\* IEEE results of a division by zero
RECURSIVE Gcd(_, _)
Gcd(a, b) == IF b = 0 THEN a ELSE Gcd(b, a % b)

\* `n as f64 / d as f64` for unsigned n and d
F64Div(n, d) ==
    IF d = 0
    THEN IF n = 0 THEN [kind |-> "NaN"] ELSE [kind |-> "inf"]
    ELSE [kind |-> "num", num |-> n \div Gcd(n, d), den |-> d \div Gcd(n, d)]

\* `for (_, distance) in distances.iter()`: what one bfs result adds to
\* total_distance, the entries taken in the order `order`
RECURSIVE SumDistances(_, _, _)
SumDistances(dists, order, i) ==
    IF i > Len(order) THEN 0
    ELSE dists[order[i]] + SumDistances(dists, order, i + 1)

\* ... and what it adds to total_pairs: 1 per entry of the map
CountPairs_AllVertices(dists) == Cardinality(vertices)

CountPairs(dists) == Cardinality(DOMAIN dists)

\* let mut total_distance = 0; let mut total_pairs = 0;
AvgStart ==
    /\ pc = "ingest"
    /\ pc' = "avg"
    /\ total_distance' = 0
    /\ total_pairs' = 0
    /\ todo' = vertices
    /\ UNCHANGED <<graphVars, bfsVars, avg_distance, degVars, comVars>>

\* `for vertex in graph.vertices.iter()`: the next vertex, and the call of bfs
AvgCallBfs ==
    /\ pc = "avg"
    /\ \E vertex \in todo :
         /\ todo' = todo \ {vertex}
         /\ BfsEnter(vertex, "avg")
    /\ UNCHANGED <<graphVars, total_distance, total_pairs, avg_distance,
                   degVars, comVars>>

\* bfs returns to calculate_average_distance, which runs its inner loop
AvgAccumulate ==
    /\ pc = "bfs"
    /\ queue = <<>>
    /\ ret = "avg"
    /\ \E order \in Orders(DOMAIN distances) :
         total_distance' = total_distance + SumDistances(distances, order, 1)
    /\ total_pairs' = total_pairs + CountPairs(distances)
    /\ pc' = "avg"
    /\ ret' = "none"
    /\ start_vertex' = None
    /\ distances' = EmptyMap
    /\ visited' = {}
    /\ UNCHANGED <<graphVars, queue, todo, avg_distance, degVars, comVars>>

\* total_distance as f64 / total_pairs as f64
AvgFinish ==
    /\ pc = "avg"
    /\ todo = {}
    /\ avg_distance' = F64Div(total_distance, total_pairs)
    /\ pc' = "degree"
    /\ UNCHANGED <<graphVars, bfsVars, total_distance, total_pairs, todo,
                   degVars, comVars>>

----------------------------------------------------------------------------
\* degree_distribution_analysis

\* `for vertex in graph.vertices.iter()` over the vertices in the order
\* `order`: *degrees.entry(degree).or_insert(0) += 1
RECURSIVE CountDegrees(_, _, _)
CountDegrees(order, i, degs) ==
    IF i > Len(order) THEN degs
    ELSE LET degree == Cardinality(get_neighbors(order[i])) IN
         CountDegrees(order, i + 1,
             IF degree \in DOMAIN degs
             THEN [degs EXCEPT ![degree] = @ + 1]
             ELSE degs @@ (degree :> 1))

\* degrees.into_iter().collect(): the entries in the order `order` of the keys
Collect(degs, order) == [i \in 1..Len(order) |-> <<order[i], degs[order[i]]>>]

\* insertion of the entry e into the sorted vector v, after the entries with
\* an equal key (sort_by_key is stable)
RECURSIVE InsertSorted(_, _)
InsertSorted(v, e) ==
    IF v = <<>> THEN <<e>>
    ELSE IF e[1] < Head(v)[1] THEN <<e>> \o v
    ELSE <<Head(v)>> \o InsertSorted(Tail(v), e)

\* degree_counts.sort_by_key(|&(degree, _)| degree)
RECURSIVE SortByKey(_)
SortByKey_Unsorted(v) == v

SortByKey(v) ==
    IF v = <<>> THEN <<>>
    ELSE InsertSorted(SortByKey(SubSeq(v, 1, Len(v) - 1)), v[Len(v)])

degree_distribution_analysis ==
    /\ pc = "degree"
    /\ \E vorder \in Orders(vertices) :
         LET degs == CountDegrees(vorder, 1, EmptyMap) IN
         /\ degrees' = degs
         /\ \E korder \in Orders(DOMAIN degs) :
              degree_counts' = SortByKey(Collect(degs, korder))
    /\ pc' = "community"
    /\ UNCHANGED <<graphVars, bfsVars, avgVars, comVars>>

----------------------------------------------------------------------------
\* community_detection_and_centrality_measures

\* louvain: the body is `HashMap::new()`
louvain == EmptyMap

\* calculate_centrality: the body is `HashMap::new()`
calculate_centrality == EmptyMap

community_detection_and_centrality_measures ==
    /\ pc = "community"
    /\ communities' = louvain
    /\ centrality_measures' = calculate_centrality
    /\ pc' = "done"
    /\ UNCHANGED <<graphVars, bfsVars, avgVars, degVars>>

----------------------------------------------------------------------------
\* Graph::new(), and no analysis begun
Init ==
    /\ vertices = {}
    /\ edges = EmptyMap
    /\ calls = 0
    /\ pc = "ingest"
    /\ ret = "none"
    /\ start_vertex = None
    /\ distances = EmptyMap
    /\ visited = {}
    /\ queue = <<>>
    /\ total_distance = 0
    /\ total_pairs = 0
    /\ todo = {}
    /\ avg_distance = [kind |-> "unset"]
    /\ degrees = EmptyMap
    /\ degree_counts = <<>>
    /\ communities = None
    /\ centrality_measures = None

AddEdge == \E source \in Names, target \in Names : add_edge(source, target)

CallBfsAny == \E s \in Names : CallBfs(s)

Next ==
    \/ AddEdge
    \/ CallBfsAny
    \/ BfsStep
    \/ BfsReturn
    \/ AvgStart
    \/ AvgCallBfs
    \/ AvgAccumulate
    \/ AvgFinish
    \/ degree_distribution_analysis
    \/ community_detection_and_centrality_measures

Spec == Init /\ [][Next]_vars

\* bfs is a sequential loop: a started call runs on until it returns
FairSpec == Spec /\ WF_vars(BfsStep) /\ WF_vars(BfsReturn) /\ WF_vars(AvgAccumulate)

----------------------------------------------------------------------------
\* Graph-theoretic definitions the properties are stated with.  None of them
\* uses the queue of bfs.

\* the vertices at most k hops from u
RECURSIVE Ball(_, _)
Ball(u, k) ==
    IF k = 0 THEN {u}
    ELSE LET B == Ball(u, k - 1) IN B \cup UNION {get_neighbors(w) : w \in B}

\* the vertices reachable from u
Reachable(u) == Ball(u, Cardinality(vertices))

\* the length of a shortest path from u to v, for v reachable from u
HopCount(u, v) ==
    CHOOSE k \in 0..Cardinality(vertices) :
        /\ v \in Ball(u, k)
        /\ \A j \in 0..(k - 1) : v \notin Ball(u, j)

\* the sum of HopCount over a set of ordered pairs
RECURSIVE SumHops(_)
SumHops(P) ==
    IF P = {} THEN 0
    ELSE LET p == CHOOSE q \in P : TRUE IN HopCount(p[1], p[2]) + SumHops(P \ {p})

\* u and v are joined by an edge
HasEdge(u, v) == v \in get_neighbors(u) /\ u \in get_neighbors(v)

\* the graph is the complete graph on its vertices, n >= 2
IsComplete ==
    /\ Cardinality(vertices) >= 2
    /\ \A u \in vertices : get_neighbors(u) = vertices \ {u}

\* the graph is a star with centre c and k leaves
IsStar(c, k) ==
    /\ c \in vertices
    /\ Cardinality(vertices) = k + 1
    /\ get_neighbors(c) = vertices \ {c}
    /\ \A l \in vertices \ {c} : get_neighbors(l) = {c}

\* the graph is the path 1 - 2 - 3 - 4
IsPath4 ==
    /\ vertices = {1, 2, 3, 4}
    /\ edges = (1 :> {2}) @@ (2 :> {1, 3}) @@ (3 :> {2, 4}) @@ (4 :> {3})

AvgDone == pc \in {"degree", "community", "done"}

DegDone == pc \in {"community", "done"}

BfsDone == pc = "bfs" /\ queue = <<>>

----------------------------------------------------------------------------
\* C1: after any sequence of add_edge calls adjacency is symmetric: v is in
\* get_neighbors(u) if and only if u is in get_neighbors(v).
C1_Symmetric ==
    \A u \in Names, v \in Names :
        (v \in get_neighbors(u)) <=> (u \in get_neighbors(v))

C1_Witness ==
    /\ calls >= 2
    /\ \E u \in vertices, v \in vertices :
         /\ u # v
         /\ v \in get_neighbors(u)
         /\ Cardinality(get_neighbors(u)) >= 2

\* C2: add_edge(a, a) changes neither the vertex set nor the adjacency map,
\* and no vertex is ever in its own neighbor set.
C2_SelfLoopIsNoOp ==
    /\ [][\A a \in Names : add_edge(a, a) => UNCHANGED <<vertices, edges>>]_vars
    /\ [](\A v \in Names : v \notin get_neighbors(v))

\* C3: add_edge(a, b) on a graph where {a, b} is already an edge leaves the
\* vertex set and every neighbor set as they were.
C3_Idempotent ==
    [][\A a \in Names, b \in Names :
          (HasEdge(a, b) /\ add_edge(a, b)) => UNCHANGED <<vertices, edges>>]_vars

C3_Witness ==
    /\ calls = 3
    /\ vertices = {1, 2, 3}
    /\ edges = (1 :> {2, 3}) @@ (2 :> {1}) @@ (3 :> {1})

\* C4: on a complete graph K_n, n >= 2, calculate_average_distance returns
\* exactly 1.
C4_CompleteGraphAverageIsOne ==
    (AvgDone /\ IsComplete) => avg_distance = [kind |-> "num", num |-> 1, den |-> 1]

\* C5: on a graph with at most one vertex calculate_average_distance returns
\* an explicit "not applicable" result, which is no number and no outcome of
\* a division by zero.
NotApplicable == [kind |-> "not applicable"]

C5_SmallGraphNotApplicable ==
    (AvgDone /\ Cardinality(vertices) <= 1) => avg_distance = NotApplicable

\* C6: a call of bfs returns, and the map it returns has exactly the vertices
\* reachable from the start vertex as keys, the start vertex at 0 and every
\* key at its shortest hop count; on the path 1-2-3-4 from 1 that is
\* 1:0, 2:1, 3:2, 4:3.
BfsResultCorrect ==
    BfsDone =>
        /\ DOMAIN distances = Reachable(start_vertex)
        /\ distances[start_vertex] = 0
        /\ \A v \in DOMAIN distances : distances[v] = HopCount(start_vertex, v)
        /\ (IsPath4 /\ start_vertex = 1) =>
               distances = (1 :> 0) @@ (2 :> 1) @@ (3 :> 2) @@ (4 :> 3)

C6_BfsCorrect ==
    /\ []BfsResultCorrect
    /\ (pc = "bfs") ~> (pc # "bfs")

C6_Witness ==
    /\ BfsDone
    /\ IsPath4
    /\ start_vertex = 1
    /\ distances = (1 :> 0) @@ (2 :> 1) @@ (3 :> 2) @@ (4 :> 3)

\* C7: every key of the adjacency map and every member of a neighbor set is
\* a member of the vertex set.
C7_EdgesWithinVertices ==
    /\ DOMAIN edges \subseteq vertices
    /\ \A k \in DOMAIN edges : edges[k] \subseteq vertices

C7_Witness ==
    /\ Cardinality(vertices) >= 3
    /\ \E k \in DOMAIN edges : Cardinality(edges[k]) >= 2

\* C8: total_pairs and total_distance aggregate the ordered pairs (u, v) of
\* the sources u iterated so far with v in the component of u, and no pair
\* whose vertices lie in different components.
SameComponentPairs ==
    {p \in (vertices \ todo) \X vertices : p[2] \in Reachable(p[1])}

C8_OnlyWithinComponent ==
    (pc = "avg" \/ AvgDone) =>
        /\ total_pairs = Cardinality(SameComponentPairs)
        /\ total_distance = SumHops(SameComponentPairs)

C8_Witness ==
    /\ AvgDone
    /\ \E u \in vertices, v \in vertices : v \notin Reachable(u)
    /\ total_pairs > 0
    /\ total_distance > 0

\* C9: the histogram maps each degree d that some vertex has to the number of
\* vertices with d neighbors, it is reported in strictly ascending order of
\* degree, and on a star with k leaves it has k vertices at degree 1 and one
\* vertex at degree k.
StarHistogram(k) ==
    [d \in {1, k} |-> (IF d = 1 THEN k ELSE 0) + (IF d = k THEN 1 ELSE 0)]

C9_DegreeHistogram ==
    DegDone =>
        /\ DOMAIN degrees = {Cardinality(get_neighbors(v)) : v \in vertices}
        /\ \A d \in DOMAIN degrees :
              degrees[d] = Cardinality({v \in vertices : Cardinality(get_neighbors(v)) = d})
        /\ Len(degree_counts) = Cardinality(DOMAIN degrees)
        /\ \A i \in 1..Len(degree_counts) :
              /\ degree_counts[i][1] \in DOMAIN degrees
              /\ degree_counts[i][2] = degrees[degree_counts[i][1]]
        /\ \A i \in 1..Len(degree_counts), j \in 1..Len(degree_counts) :
              i < j => degree_counts[i][1] < degree_counts[j][1]
        /\ \A c \in Names, k \in 1..NumNames :
              IsStar(c, k) => degrees = StarHistogram(k)

C9_Witness ==
    /\ DegDone
    /\ IsStar(1, 3)
    /\ degree_counts = <<<<1, 3>>, <<3, 1>>>>

\* C10: louvain returns a partition of the vertex set: every vertex is in
\* exactly one returned community.
C10_LouvainPartition ==
    pc = "done" =>
        /\ \A c \in DOMAIN communities : communities[c] \subseteq vertices
        /\ \A v \in vertices :
              Cardinality({c \in DOMAIN communities : v \in communities[c]}) = 1

====
